---- MODULE Spec2Model ----
(***************************************************************************)
(* The `api` helper of the article "Effective Query Functions for React    *)
(* Query with Zod": api(definition) returns a callable that validates the  *)
(* request with the request schema, issues one axios call, and treats the  *)
(* response body according to process.env.NODE_ENV.                        *)
(*                                                                         *)
(* One invocation of the returned callable is one element of Calls.  The   *)
(* JavaScript run-to-completion turns of an invocation are the actions:    *)
(* the synchronous part of the call (Invoke), the continuation after       *)
(* `await axios(...)` (TransportSuccess / TransportFailure) and the        *)
(* callback of safeParseAsync(...).then (BackgroundValidationDone).        *)
(***************************************************************************)
EXTENDS Integers, Sequences, FiniteSets, TLC

\* Number of invocations made through the same callable.
NumCalls == 2

Calls == 1..NumCalls

----------------------------------------------------------------------------
(* JavaScript values that travel as requestData and as response.data.      *)

Undefined == [type |-> "undefined", props |-> [k \in {} |-> ""]]

Obj(f) == [type |-> "object", props |-> f]

Values ==
    { Undefined,
      Obj([k \in {"name"} |-> "octo"]),
      Obj([k \in {"name"} |-> ""]),
      Obj([k \in {"name", "extra"} |-> IF k = "name" THEN "octo" ELSE "x"]) }

\* A key that the axios config object does not have at all.
Absent == [type |-> "absent", props |-> [k \in {} |-> ""]]

----------------------------------------------------------------------------
(* Enumerations of the source.                                             *)

HTTPMethod == {"GET", "POST"}

\* EnvName.PRODUCTION, the value NODE_ENV is compared with.
PRODUCTION == "production"

\* The values process.env.NODE_ENV takes.
EnvNames == {"development", PRODUCTION}

\* Failures with which the axios promise rejects.
TransportErrors == {"Network Error", "Request failed with status code 500"}

----------------------------------------------------------------------------
(* Zod schemas: z.void() and z.object({ name: z.string().min(1) }).        *)

\* Whether value v passes schema s.
Conforms(s, v) ==
    IF s = "void"
    THEN v.type = "undefined"
    ELSE /\ v.type = "object"
         /\ "name" \in DOMAIN v.props
         /\ Len(v.props["name"]) >= 1

\* The output of a successful parse: z.object strips the keys the schema
\* does not declare, z.void yields undefined.
ParseOutput(s, v) ==
    IF s = "void"
    THEN Undefined
    ELSE Obj([k \in {"name"} |-> v.props[k]])

\* schema.safeParse(v) / the settled value of schema.safeParseAsync(v).
SafeParse(s, v) ==
    IF Conforms(s, v)
    THEN [success |-> TRUE, data |-> ParseOutput(s, v)]
    ELSE [success |-> FALSE, data |-> Undefined]

----------------------------------------------------------------------------
(* The invocation definitions api() is constructed with.                   *)

Definitions ==
    { [method |-> "GET", path |-> "/repository",
       requestSchema |-> "void", responseSchema |-> "name"],
      [method |-> "POST", path |-> "/repository",
       requestSchema |-> "name", responseSchema |-> "name"] }

VARIABLES
    definition,   \* the argument of api(): method, path, the two schemas
    NODE_ENV,     \* process.env.NODE_ENV
    pc,           \* per call: where the invocation stands
    requestData,  \* per call: the argument of the callable
    envAtCall,    \* per call: NODE_ENV when the callable was called
    sent,         \* per call: the sequence of axios configs issued
    transport,    \* per call: how the axios promise settled
    policy,       \* per call: the branch taken on NODE_ENV
    parses,       \* per call: number of response-schema validations started
    outcome,      \* per call: how the call ended for its caller
    background,   \* per call: the detached safeParseAsync pass
    reports       \* per call: reports handed to the error-reporting service

vars == <<definition, NODE_ENV, pc, requestData, envAtCall, sent, transport,
          policy, parses, outcome, background, reports>>

NoOutcome == [kind |-> "none", value |-> Undefined, error |-> ""]

NoTransport == [kind |-> "none", data |-> Undefined, error |-> ""]

NoBackground == [state |-> "none", success |-> TRUE]

Init ==
    /\ definition \in Definitions
    /\ NODE_ENV \in EnvNames
    /\ pc = [i \in Calls |-> "idle"]
    /\ requestData = [i \in Calls |-> Undefined]
    /\ envAtCall = [i \in Calls |-> "unset"]
    /\ sent = [i \in Calls |-> <<>>]
    /\ transport = [i \in Calls |-> NoTransport]
    /\ policy = [i \in Calls |-> "none"]
    /\ parses = [i \in Calls |-> 0]
    /\ outcome = [i \in Calls |-> NoOutcome]
    /\ background = [i \in Calls |-> NoBackground]
    /\ reports = [i \in Calls |-> 0]

----------------------------------------------------------------------------
(* The synchronous part of one call of the returned function.              *)

\* Variant of AxiosConfig that always uses the "data" key, whatever the method.
AxiosConfigAlwaysData(def, data) ==
    [method |-> def.method,
     url    |-> def.path,
     params |-> Absent,
     data   |-> data]

\* The object literal handed to axios: the computed key is "params" for GET
\* and "data" otherwise, and it carries requestData itself.
AxiosConfig(def, data) ==
    [method |-> def.method,
     url    |-> def.path,
     params |-> IF def.method = "GET" THEN data ELSE Absent,
     data   |-> IF def.method = "GET" THEN Absent ELSE data]

\* Variant of Invoke with requestSchema.parse moved into apiCall, after the
\* axios call: the request leaves before it is validated and the failure
\* becomes a rejection.
InvokeParseInsideApiCall(i, data) ==
    /\ pc[i] = "idle"
    /\ requestData' = [requestData EXCEPT ![i] = data]
    /\ envAtCall' = [envAtCall EXCEPT ![i] = NODE_ENV]
    /\ sent' = [sent EXCEPT ![i] = Append(@, AxiosConfig(definition, data))]
    /\ IF Conforms(definition.requestSchema, data)
       THEN /\ pc' = [pc EXCEPT ![i] = "awaiting"]
            /\ outcome' = outcome
       ELSE /\ pc' = [pc EXCEPT ![i] = "rejected"]
            /\ outcome' = [outcome EXCEPT ![i] =
                   [kind |-> "rejected", value |-> Undefined,
                    error |-> "RequestValidationError"]]
    /\ UNCHANGED <<definition, NODE_ENV, transport, policy, parses,
                   background, reports>>

Invoke(i, data) ==
    /\ pc[i] = "idle"
    /\ requestData' = [requestData EXCEPT ![i] = data]
    /\ envAtCall' = [envAtCall EXCEPT ![i] = NODE_ENV]
    /\ IF Conforms(definition.requestSchema, data)
       THEN /\ sent' = [sent EXCEPT ![i] = Append(@, AxiosConfig(definition, data))]
            /\ pc' = [pc EXCEPT ![i] = "awaiting"]
            /\ outcome' = outcome
       ELSE /\ sent' = sent
            /\ pc' = [pc EXCEPT ![i] = "thrown"]
            /\ outcome' = [outcome EXCEPT ![i] =
                   [kind |-> "thrown", value |-> Undefined,
                    error |-> "RequestValidationError"]]
    /\ UNCHANGED <<definition, NODE_ENV, transport, policy, parses,
                   background, reports>>

----------------------------------------------------------------------------
(* The continuation of apiCall after `await axios(...)`.                   *)

\* Variant of EnvRead that uses the value NODE_ENV had when the callable was
\* called (the comparison hoisted above the await).
EnvReadAtCall(i) == envAtCall[i]

\* The value of process.env.NODE_ENV that the comparison of apiCall reads.
EnvRead(i) == NODE_ENV

\* Variant of LenientValue that returns the parsed data when the body parses.
LenientValueParsed(s, body) ==
    IF Conforms(s, body) THEN ParseOutput(s, body) ELSE body

\* What the production branch returns: response.data as it is.
LenientValue(s, body) == body

\* Variant of StrictOutcome that never throws: a failed parse is ignored and
\* the body is returned.
StrictOutcomeIgnoringFailure(s, body) ==
    [kind |-> "resolved",
     value |-> IF Conforms(s, body) THEN ParseOutput(s, body) ELSE body,
     error |-> ""]

\* Variant of StrictOutcome that validates but returns response.data instead
\* of the output of the parse.
StrictOutcomeUnparsed(s, body) ==
    IF Conforms(s, body)
    THEN [kind |-> "resolved", value |-> body, error |-> ""]
    ELSE [kind |-> "rejected", value |-> Undefined,
          error |-> "ResponseValidationError"]

\* What the other branch returns or throws: responseSchema.parse(body).
StrictOutcome(s, body) ==
    IF SafeParse(s, body).success
    THEN [kind |-> "resolved", value |-> SafeParse(s, body).data, error |-> ""]
    ELSE [kind |-> "rejected", value |-> Undefined,
          error |-> "ResponseValidationError"]

\* Variant of TransportSuccess that awaits safeParseAsync before returning:
\* the call resolves only together with the end of the validation.
TransportSuccessAwaitingValidation(i, body) ==
    /\ pc[i] = "awaiting"
    /\ transport' = [transport EXCEPT ![i] =
           [kind |-> "ok", data |-> body, error |-> ""]]
    /\ parses' = [parses EXCEPT ![i] = @ + 1]
    /\ IF EnvRead(i) = PRODUCTION
       THEN /\ policy' = [policy EXCEPT ![i] = "lenient"]
            /\ background' = [background EXCEPT ![i] =
                   [state |-> "done",
                    success |-> Conforms(definition.responseSchema, body)]]
            /\ outcome' = [outcome EXCEPT ![i] =
                   [kind |-> "resolved",
                    value |-> LenientValue(definition.responseSchema, body),
                    error |-> ""]]
       ELSE /\ policy' = [policy EXCEPT ![i] = "strict"]
            /\ background' = background
            /\ outcome' = [outcome EXCEPT ![i] =
                   StrictOutcome(definition.responseSchema, body)]
    /\ pc' = [pc EXCEPT ![i] = outcome'[i].kind]
    /\ UNCHANGED <<definition, NODE_ENV, requestData, envAtCall, sent, reports>>

\* Variant of TransportSuccess with `response` kept in the closure of api
\* instead of apiCall: a call returns the body another call received last.
TransportSuccessSharedResponse(i, body) ==
    /\ pc[i] = "awaiting"
    /\ transport' = [transport EXCEPT ![i] =
           [kind |-> "ok", data |-> body, error |-> ""]]
    /\ parses' = [parses EXCEPT ![i] = @ + 1]
    /\ LET others == {j \in Calls : j # i /\ transport[j].kind = "ok"}
           shared == IF others = {} THEN body
                     ELSE transport[CHOOSE j \in others : TRUE].data
       IN IF EnvRead(i) = PRODUCTION
          THEN /\ policy' = [policy EXCEPT ![i] = "lenient"]
               /\ background' = [background EXCEPT ![i] =
                      [state |-> "pending", success |-> TRUE]]
               /\ outcome' = [outcome EXCEPT ![i] =
                      [kind |-> "resolved",
                       value |-> LenientValue(definition.responseSchema, shared),
                       error |-> ""]]
          ELSE /\ policy' = [policy EXCEPT ![i] = "strict"]
               /\ background' = background
               /\ outcome' = [outcome EXCEPT ![i] =
                      StrictOutcome(definition.responseSchema, shared)]
    /\ pc' = [pc EXCEPT ![i] = outcome'[i].kind]
    /\ UNCHANGED <<definition, NODE_ENV, requestData, envAtCall, sent, reports>>

TransportSuccess(i, body) ==
    /\ pc[i] = "awaiting"
    /\ transport' = [transport EXCEPT ![i] =
           [kind |-> "ok", data |-> body, error |-> ""]]
    /\ parses' = [parses EXCEPT ![i] = @ + 1]
    /\ IF EnvRead(i) = PRODUCTION
       THEN /\ policy' = [policy EXCEPT ![i] = "lenient"]
            /\ background' = [background EXCEPT ![i] =
                   [state |-> "pending", success |-> TRUE]]
            /\ outcome' = [outcome EXCEPT ![i] =
                   [kind |-> "resolved",
                    value |-> LenientValue(definition.responseSchema, body),
                    error |-> ""]]
       ELSE /\ policy' = [policy EXCEPT ![i] = "strict"]
            /\ background' = background
            /\ outcome' = [outcome EXCEPT ![i] =
                   StrictOutcome(definition.responseSchema, body)]
    /\ pc' = [pc EXCEPT ![i] = outcome'[i].kind]
    /\ UNCHANGED <<definition, NODE_ENV, requestData, envAtCall, sent, reports>>

\* Variant of TransportFailure that retries: the request is issued again and
\* the call keeps waiting.
TransportFailureRetry(i, err) ==
    /\ pc[i] = "awaiting"
    /\ Len(sent[i]) < 3
    /\ transport' = [transport EXCEPT ![i] =
           [kind |-> "failed", data |-> Undefined, error |-> err]]
    /\ sent' = [sent EXCEPT ![i] = Append(@, sent[i][1])]
    /\ UNCHANGED <<definition, NODE_ENV, pc, requestData, envAtCall, policy,
                   parses, outcome, background, reports>>

\* The axios promise rejects: the await throws and apiCall rejects with it.
TransportFailure(i, err) ==
    /\ pc[i] = "awaiting"
    /\ transport' = [transport EXCEPT ![i] =
           [kind |-> "failed", data |-> Undefined, error |-> err]]
    /\ outcome' = [outcome EXCEPT ![i] =
           [kind |-> "rejected", value |-> Undefined, error |-> err]]
    /\ pc' = [pc EXCEPT ![i] = "rejected"]
    /\ UNCHANGED <<definition, NODE_ENV, requestData, envAtCall, sent, policy,
                   parses, background, reports>>

----------------------------------------------------------------------------
(* The callback of responseSchema.safeParseAsync(response.data).then.      *)

\* Reports made inside `if (!result.success) { ... }`: the body of the
\* branch is a comment, nothing is sent.
ReportsOnMismatch == 0

BackgroundValidationDone(i) ==
    /\ background[i].state = "pending"
    /\ LET result == SafeParse(definition.responseSchema, transport[i].data)
       IN /\ background' = [background EXCEPT ![i] =
                 [state |-> "done", success |-> result.success]]
          /\ reports' = [reports EXCEPT ![i] =
                 IF ~result.success THEN @ + ReportsOnMismatch ELSE @]
    /\ UNCHANGED <<definition, NODE_ENV, pc, requestData, envAtCall, sent,
                   transport, policy, parses, outcome>>

----------------------------------------------------------------------------
(* process.env is a writable object of the host process.                   *)

SetEnv(e) ==
    /\ e # NODE_ENV
    /\ NODE_ENV' = e
    /\ UNCHANGED <<definition, pc, requestData, envAtCall, sent, transport,
                   policy, parses, outcome, background, reports>>

----------------------------------------------------------------------------

Next ==
    \/ \E i \in Calls, data \in Values : Invoke(i, data)
    \/ \E i \in Calls, body \in Values : TransportSuccess(i, body)
    \/ \E i \in Calls, err \in TransportErrors : TransportFailure(i, err)
    \/ \E i \in Calls : BackgroundValidationDone(i)
    \/ \E e \in EnvNames : SetEnv(e)

Spec == Init /\ [][Next]_vars

----------------------------------------------------------------------------
(* Properties of the helper.                                               *)

Rejected(err) == [kind |-> "rejected", value |-> Undefined, error |-> err]

Resolved(v) == [kind |-> "resolved", value |-> v, error |-> ""]

\* Call i was made with a requestData its request schema accepts.
ValidRequest(i) ==
    pc[i] # "idle" /\ Conforms(definition.requestSchema, requestData[i])

\* Call i was made with a requestData its request schema refuses.
InvalidRequest(i) ==
    pc[i] # "idle" /\ ~Conforms(definition.requestSchema, requestData[i])

\* This step is the one in which call i receives a successful response.
ResponseArrives(i) == pc[i] = "awaiting" /\ transport'[i].kind = "ok"

\* The outcome of a settled call never changes afterwards.
OutcomeIsFinal(i) == outcome[i].kind # "none" => outcome'[i] = outcome[i]

\* C1: a requestData that violates the request schema makes the call throw
\* the request validation error synchronously (a throw of the call itself,
\* not a rejected promise), and no transport call is ever made for it.
C1_InvalidRequestThrowsWithoutTransport ==
    \A i \in Calls :
        InvalidRequest(i) =>
            /\ pc[i] = "thrown"
            /\ outcome[i] = [kind |-> "thrown", value |-> Undefined,
                             error |-> "RequestValidationError"]
            /\ Len(sent[i]) = 0
            /\ transport[i].kind = "none"

C1_Witness ==
    \E i \in Calls :
        /\ pc[i] = "thrown"
        /\ requestData[i] = Obj([k \in {"name"} |-> ""])
        /\ \A j \in Calls : pc[j] # "idle"

\* C2: a requestData that conforms to the request schema causes exactly one
\* transport call with the definition's method and path; requestData itself
\* is under params for GET and under data for any other method, never both.
C2_ValidRequestOneTransportCall ==
    \A i \in Calls :
        ValidRequest(i) =>
            /\ Len(sent[i]) = 1
            /\ sent[i][1].method = definition.method
            /\ sent[i][1].url = definition.path
            /\ IF definition.method = "GET"
               THEN sent[i][1].params = requestData[i] /\ sent[i][1].data = Absent
               ELSE sent[i][1].data = requestData[i] /\ sent[i][1].params = Absent

C2_Witness ==
    \E i \in Calls :
        /\ pc[i] = "resolved"
        /\ definition.method = "POST"
        /\ Len(sent[i]) = 1
        /\ "extra" \in DOMAIN sent[i][1].data.props

\* C3: when a response body that violates the response schema arrives while
\* the mode is not production, the call ends rejected with the response
\* validation error, and a rejected call never becomes resolved.
C3_StrictViolationRejects ==
    [][\A i \in Calls :
          /\ (ResponseArrives(i) /\ NODE_ENV # PRODUCTION
                /\ ~Conforms(definition.responseSchema, transport'[i].data))
             => outcome'[i] = Rejected("ResponseValidationError")
          /\ outcome[i].kind = "rejected" => outcome'[i].kind = "rejected"]_vars

C3_Witness ==
    \E i \in Calls :
        /\ policy[i] = "strict"
        /\ transport[i].kind = "ok"
        /\ transport[i].data = Obj([k \in {"name"} |-> ""])
        /\ outcome[i].kind = "rejected"

\* C4: when a response body that conforms to the response schema arrives
\* while the mode is not production, the call resolves with the output of
\* parsing that body with the response schema, and does not reject.
C4_StrictConformingResolvesParsed ==
    [][\A i \in Calls :
          /\ (ResponseArrives(i) /\ NODE_ENV # PRODUCTION
                /\ Conforms(definition.responseSchema, transport'[i].data))
             => /\ outcome'[i].kind = "resolved"
                /\ outcome'[i].value =
                       Obj([k \in {"name"} |-> transport'[i].data.props["name"]])
          /\ outcome[i].kind = "resolved" => outcome'[i].kind = "resolved"]_vars

C4_Witness ==
    \E i \in Calls :
        /\ policy[i] = "strict"
        /\ outcome[i].kind = "resolved"
        /\ "extra" \in DOMAIN transport[i].data.props
        /\ outcome[i].value # transport[i].data

\* C5: when a response body arrives while the mode is production, conforming
\* or not, the call resolves with exactly that body; the end of the
\* background validation leaves the resolved value as it is.
C5_LenientResolvesWithBody ==
    [][\A i \in Calls :
          /\ (ResponseArrives(i) /\ NODE_ENV = PRODUCTION)
             => outcome'[i] = Resolved(transport'[i].data)
          /\ (background[i].state = "pending" /\ background'[i].state = "done")
             => outcome'[i] = outcome[i] /\ outcome'[i].kind = "resolved"
          /\ OutcomeIsFinal(i)]_vars

C5_Witness ==
    \E i, j \in Calls :
        /\ policy[i] = "lenient"
        /\ background[i].state = "done"
        /\ ~background[i].success
        /\ outcome[i] = Resolved(Obj([k \in {"name"} |-> ""]))
        /\ policy[j] = "lenient"
        /\ background[j].state = "done"
        /\ "extra" \in DOMAIN outcome[j].value.props

\* C6: in production mode a call whose response body violates the response
\* schema causes exactly one mismatch report, a conforming one causes none.
C6_OneReportPerMismatch ==
    \A i \in Calls :
        background[i].state = "done" =>
            reports[i] =
                IF Conforms(definition.responseSchema, transport[i].data)
                THEN 0 ELSE 1

\* C7: a call whose transport call fails ends rejected with that failure,
\* whatever the mode; no second transport call is made, no response
\* validation runs and no mismatch report is emitted.
C7_TransportFailureRejectsNoRetry ==
    \A i \in Calls :
        transport[i].kind = "failed" =>
            /\ pc[i] = "rejected"
            /\ outcome[i] = Rejected(transport[i].error)
            /\ Len(sent[i]) = 1
            /\ parses[i] = 0
            /\ policy[i] = "none"
            /\ background[i].state = "none"
            /\ reports[i] = 0

C7_Witness ==
    \E i, j \in Calls :
        /\ outcome[i] = Rejected("Network Error")
        /\ outcome[j] = Rejected("Request failed with status code 500")
        /\ envAtCall[i] = PRODUCTION
        /\ envAtCall[j] # PRODUCTION

PolicyFor(env) == IF env = PRODUCTION THEN "lenient" ELSE "strict"

\* C8 as stated: the policy applied to a call is that of the mode read when
\* the call was made, even if the mode differs when the response arrives.
C8_PolicyOfModeAtCallTime ==
    \A i \in Calls :
        policy[i] # "none" => policy[i] = PolicyFor(envAtCall[i])

\* C8 amended: the policy applied to a call is selected once, from the mode
\* read when the transport response arrives; it is the policy of the mode at
\* that moment even if the mode had another value when the call was made.
C8_PolicyOfModeAtResponseTime ==
    [][\A i \in Calls :
          /\ (policy[i] = "none" /\ policy'[i] # "none")
             => policy'[i] = PolicyFor(NODE_ENV)
          /\ policy[i] # "none" => policy'[i] = policy[i]
          /\ policy'[i] = "lenient" <=> background'[i].state # "none"]_vars

C8_Witness ==
    \E i \in Calls :
        /\ policy[i] = "lenient"
        /\ envAtCall[i] # PRODUCTION
        /\ outcome[i] = Resolved(Obj([k \in {"name"} |-> ""]))

\* C9: in production mode the background validation is started exactly once
\* when the response arrives and the call resolves in that same step, with
\* the validation still pending; nothing later starts another validation or
\* makes the resolved call wait.
C9_BackgroundValidationNotAwaited ==
    [][\A i \in Calls :
          /\ (ResponseArrives(i) /\ NODE_ENV = PRODUCTION)
             => /\ pc'[i] = "resolved"
                /\ background'[i].state = "pending"
                /\ parses'[i] = 1
          /\ pc[i] = "resolved"
             => pc'[i] = "resolved" /\ parses'[i] = parses[i]
          /\ background'[i].state # "none" => pc'[i] = "resolved"]_vars

C9_Witness ==
    \E i \in Calls :
        /\ pc[i] = "resolved"
        /\ background[i].state = "pending"
        /\ parses[i] = 1

\* What call i must have come to, from its own requestData, its own
\* transport result and the mode it read, whatever the other calls did.
OwnOutcome(i) ==
    IF pc[i] = "idle" THEN NoOutcome
    ELSE IF ~Conforms(definition.requestSchema, requestData[i])
    THEN [kind |-> "thrown", value |-> Undefined,
          error |-> "RequestValidationError"]
    ELSE IF transport[i].kind = "none" THEN NoOutcome
    ELSE IF transport[i].kind = "failed" THEN Rejected(transport[i].error)
    ELSE IF policy[i] = "lenient" THEN Resolved(transport[i].data)
    ELSE IF Conforms(definition.responseSchema, transport[i].data)
    THEN Resolved(Obj([k \in {"name"} |-> transport[i].data.props["name"]]))
    ELSE Rejected("ResponseValidationError")

OwnTransportCalls(i) == IF ValidRequest(i) THEN 1 ELSE 0

\* C10: with concurrent calls through the same callable, in any
\* interleaving, the definition is never modified and each call's outcome
\* and transport-call count are those its own requestData, its own transport
\* result and the mode give, independent of the other calls.
C10_CallsAreIndependent ==
    /\ [](\A i \in Calls :
             outcome[i] = OwnOutcome(i) /\ Len(sent[i]) = OwnTransportCalls(i))
    /\ [][definition' = definition]_vars

C10_Witness ==
    \E i, j \in Calls :
        /\ i # j
        /\ outcome[i].kind = "resolved"
        /\ outcome[j].kind = "resolved"
        /\ outcome[i].value # outcome[j].value
        /\ policy[i] # policy[j]
        /\ background[i].state = "done"

====
